---- MODULE Spec2Model ----
(***************************************************************************)
(* CourseraScraper: the pipeline manager (src/src/pipeline) and the stage  *)
(* handlers (src/src/handlers) as a state machine.                         *)
(*                                                                         *)
(* Text (paths, file contents, responses of the external capabilities) is  *)
(* a sequence of one-character strings, so that os.path, str.replace,      *)
(* str.split and str.strip are computed character by character as CPython  *)
(* computes them.  os.path is posixpath (separator "/").                   *)
(***************************************************************************)
EXTENDS FiniteSets, Integers, Sequences, TLC

VARIABLES
    \* PipelineManager's attributes (pipeline_manager.py:12-31)
    video_file_path, transcript_path, mgr,
    base_dir, video_name,
    summary_path, concept_map_path, visual_map_path, markdown_path,
    \* the environment: the filesystem, OPENAI_API_KEY, the spaCy model
    fs, apiKey, nlpModel,
    \* the filesystem as it was before the first operation
    fs0,
    \* the running entry operation: which one, the stage it is at, the stages
    \* invoked so far, the stage whose exception left the run, the log records
    op, pc, invoked, raisedIn, log,
    \* the result each stage handler holds in memory after its produce phase
    transcript, summary, concept_map, graph, markdown_content,
    \* VideoHandler's attributes (video_handler.py:20-23)
    video_url, file_path,
    \* what the external capabilities returned last: the chat completion of
    \* the concept-map request, the document the NLP model parsed the summary
    \* into, the chunks of the response body
    completion, parsed, streamed

mgrVars == <<video_file_path, transcript_path, mgr, base_dir, video_name,
             summary_path, concept_map_path, visual_map_path, markdown_path>>
envVars == <<fs, apiKey, nlpModel>>
runVars == <<op, pc, invoked, raisedIn, log>>
heldVars == <<transcript, summary, concept_map, graph, markdown_content>>
dlVars == <<video_url, file_path>>
extVars == <<completion, parsed, streamed>>
vars == <<mgrVars, envVars, fs0, runVars, heldVars, dlVars, extVars>>

----------------------------------------------------------------------------
(* Python values *)

\* Python's None for an Optional[str]; no text equals it (a text's elements
\* are single characters).
None == <<"<None>">>
\* an attribute that was never assigned
Unset == <<"<unset>">>
\* bool(x) of an Optional[str]: None and "" are falsy
Truthy(s) == s # None /\ s # <<>>

S_transcript ==
    <<"_","t","r","a","n","s","c","r","i","p","t">>
S_transcript_txt ==
    <<"_","t","r","a","n","s","c","r","i","p","t",".","t","x","t">>
S_summary_txt ==
    <<"_","s","u","m","m","a","r","y",".","t","x","t">>
S_concept_map_txt ==
    <<"_","c","o","n","c","e","p","t","_","m","a","p",".","t","x","t">>
S_visual_map_png ==
    <<"_","v","i","s","u","a","l","_","m","a","p",".","p","n","g">>
S_md ==
    <<".","m","d">>
S_http ==
    <<"h","t","t","p">>

\* s[from:] of Python, from counted from 1
Drop(s, from) == SubSeq(s, from, Len(s))
\* s.startswith(prefix)
StartsWith(s, prefix) ==
    Len(prefix) <= Len(s) /\ SubSeq(s, 1, Len(prefix)) = prefix
\* s.endswith(suffix)
EndsWith(s, suffix) ==
    Len(suffix) <= Len(s) /\ SubSeq(s, Len(s) - Len(suffix) + 1, Len(s)) = suffix
\* s.rfind(c) + 1: the last position of character c in s, 0 when absent
RFind(s, c) ==
    LET hits == {i \in 1..Len(s) : s[i] = c}
    IN  IF hits = {} THEN 0 ELSE CHOOSE i \in hits : \A j \in hits : j <= i
\* sub in s
Contains(s, sub) ==
    \E i \in 1..(Len(s) - Len(sub) + 1) : SubSeq(s, i, i + Len(sub) - 1) = sub

\* str.replace(old, new) for a non-empty old: one left-to-right pass over
\* non-overlapping occurrences, every one of them replaced
RECURSIVE Replace(_, _, _)
Replace(s, old, new) ==
    IF Len(s) < Len(old) THEN s
    ELSE IF SubSeq(s, 1, Len(old)) = old
         THEN new \o Replace(Drop(s, Len(old) + 1), old, new)
         ELSE <<s[1]>> \o Replace(Tail(s), old, new)

----------------------------------------------------------------------------
(* os.path (posixpath) *)

\* os.path.basename(p): what follows the last "/"
Basename(p) == Drop(p, RFind(p, "/") + 1)

\* head.rstrip("/")
RECURSIVE RStripSlash(_)
RStripSlash(s) ==
    IF s # <<>> /\ s[Len(s)] = "/" THEN RStripSlash(SubSeq(s, 1, Len(s) - 1)) ELSE s

\* os.path.dirname(p): up to the last "/", trailing slashes stripped unless
\* the head is slashes only
Dirname(p) ==
    LET head == SubSeq(p, 1, RFind(p, "/"))
    IN  IF head # <<>> /\ (\E i \in 1..Len(head) : head[i] # "/")
        THEN RStripSlash(head)
        ELSE head

\* os.path.splitext(p)[0]: p up to its last dot, when that dot follows the
\* last "/" and a character of the file name other than a dot precedes it
SplitextRoot(p) ==
    LET sepIndex == RFind(p, "/")
        dotIndex == RFind(p, ".")
    IN  IF dotIndex > sepIndex
           /\ \E k \in (sepIndex + 1)..(dotIndex - 1) : p[k] # "."
        THEN SubSeq(p, 1, dotIndex - 1)
        ELSE p

\* os.path.join(a, b)
Join(a, b) ==
    IF StartsWith(b, <<"/">>) THEN b
    ELSE IF a = <<>> \/ EndsWith(a, <<"/">>) THEN a \o b
    ELSE a \o <<"/">> \o b

----------------------------------------------------------------------------
(* PipelineManager.__init__ *)

\* self.base_dir, for the path the manager starts from
BaseDirOf(start) == Dirname(start)

\* self.video_name when a video path is given: the stem of the video
VideoNameOfVideo(v) == SplitextRoot(Basename(v))

\* self.video_name when only a transcript path is given: the stem of the
\* transcript with "_transcript" replaced by "" (str.replace: everywhere)
VideoNameOfTranscript(t) ==
    Replace(SplitextRoot(Basename(t)), S_transcript, <<>>)

\* a slip a derived path could make: the directory and the file name glued
\* without os.path.join
GluedPath(dir, name, suffix) == dir \o name \o suffix

\* os.path.join(self.base_dir, f"{self.video_name}<suffix>")
DerivedPath(dir, name, suffix) == Join(dir, name \o suffix)

\* a slip: the transcript path is not considered
RaisesWithoutVideo(v, t) == ~Truthy(v)

\* whether __init__ reaches its else branch and raises ValueError
RaisesValueError(v, t) == ~Truthy(v) /\ ~Truthy(t)

\* the path __init__ derives from: the video when one is given (line 16),
\* the transcript otherwise (line 19)
StartOf(v, t) == IF Truthy(v) THEN v ELSE t

\* self.video_name (lines 18, 21-22)
VideoNameOf(v, t) ==
    IF Truthy(v) THEN VideoNameOfVideo(v) ELSE VideoNameOfTranscript(t)

\* self.transcript_path after line 27: the given path when there is one
TranscriptPathOf(v, t) ==
    IF Truthy(t) THEN t
    ELSE DerivedPath(BaseDirOf(StartOf(v, t)), VideoNameOf(v, t), S_transcript_txt)

\* PipelineManager(video_file_path, transcript_path) returning normally
Construct ==
    /\ mgr = "new" /\ op = "none"
    /\ ~RaisesValueError(video_file_path, transcript_path)
    /\ LET dir == BaseDirOf(StartOf(video_file_path, transcript_path))
           name == VideoNameOf(video_file_path, transcript_path)
       IN  /\ base_dir' = dir
           /\ video_name' = name
           /\ transcript_path' = TranscriptPathOf(video_file_path, transcript_path)
           /\ summary_path' = DerivedPath(dir, name, S_summary_txt)
           /\ concept_map_path' = DerivedPath(dir, name, S_concept_map_txt)
           /\ visual_map_path' = DerivedPath(dir, name, S_visual_map_png)
           /\ markdown_path' = DerivedPath(dir, name, S_md)
    /\ mgr' = "ready"
    /\ UNCHANGED <<fs0, video_file_path, envVars, runVars, heldVars, dlVars, extVars>>

\* PipelineManager(video_file_path, transcript_path) raising ValueError at
\* line 24: no attribute after transcript_path has been assigned
ConstructRaises ==
    /\ mgr = "new" /\ op = "none"
    /\ RaisesValueError(video_file_path, transcript_path)
    /\ mgr' = "ValueError"
    /\ UNCHANGED <<fs0, video_file_path, transcript_path, base_dir, video_name,
                   summary_path, concept_map_path, visual_map_path,
                   markdown_path, envVars, runVars, heldVars, dlVars, extVars>>

----------------------------------------------------------------------------
(* The paths a manager is constructed from: a directory, up to MaxPieces    *)
(* pieces of a file name, an extension.                                     *)

MaxPieces == 3

Dirs == { <<>>, <<"/">>, <<"d","/">> }
Pieces == { <<"a">>, S_transcript,
            <<"_","t","r","a","n","s">>, <<"c","r","i","p","t">> }
Exts == { <<>>, <<".","t","x","t">>, S_md }

\* the file names of one to n pieces
RECURSIVE Stems(_)
Stems(n) ==
    IF n = 1 THEN Pieces
    ELSE LET shorter == Stems(n - 1)
         IN  shorter \cup { p \o s : p \in Pieces, s \in shorter }

PathInputs == { d \o s \o e : d \in Dirs, s \in Stems(MaxPieces), e \in Exts }

\* both paths given: a few pairs
BothInputs ==
    { <<v, t>> : v \in { <<"d","/","a",".","m","p","4">>, <<"v">> },
                 t \in { <<"d","/","a">> \o S_transcript_txt, <<"t",".","t","x","t">> } }

\* the handlers' results and the run's position before anything ran
Idle ==
    /\ mgr = "new"
    /\ base_dir = Unset /\ video_name = Unset
    /\ summary_path = Unset /\ concept_map_path = Unset
    /\ visual_map_path = Unset /\ markdown_path = Unset
    /\ op = "none" /\ pc = "idle" /\ invoked = <<>> /\ raisedIn = "none"
    /\ log = <<>>
    /\ transcript = None /\ summary = None /\ concept_map = <<>>
    /\ graph = [nodes |-> {}, edges |-> {}]
    /\ markdown_content = <<>>
    /\ video_url = None /\ file_path = None
    /\ completion = None /\ parsed = <<>> /\ streamed = <<>>

InitPaths ==
    /\ Idle
    /\ \/ video_file_path \in PathInputs /\ transcript_path = None
       \/ video_file_path \in {None, <<>>} /\ transcript_path \in PathInputs \cup {None}
       \/ \E b \in BothInputs : video_file_path = b[1] /\ transcript_path = b[2]
    /\ fs = [p \in {} |-> <<>>] /\ fs0 = fs /\ apiKey = TRUE /\ nlpModel = TRUE

NextPaths == Construct \/ ConstructRaises

SpecPaths == InitPaths /\ [][NextPaths]_vars

----------------------------------------------------------------------------
(* Text: str.split, str.strip, the lines of a text file *)

Whitespace == {" ", "\n", "\t"}

\* s.split(sep) for a one-character sep: the pieces between the separators,
\* empty pieces kept
RECURSIVE Split(_, _)
Split(s, sep) ==
    LET hits == {i \in 1..Len(s) : s[i] = sep}
    IN  IF hits = {} THEN <<s>>
        ELSE LET i == CHOOSE h \in hits : \A j \in hits : h <= j
             IN  <<SubSeq(s, 1, i - 1)>> \o Split(Drop(s, i + 1), sep)

RECURSIVE LStrip(_)
LStrip(s) == IF s # <<>> /\ s[1] \in Whitespace THEN LStrip(Tail(s)) ELSE s

RECURSIVE RStrip(_)
RStrip(s) ==
    IF s # <<>> /\ s[Len(s)] \in Whitespace
    THEN RStrip(SubSeq(s, 1, Len(s) - 1))
    ELSE s

\* s.strip()
Strip(s) == LStrip(RStrip(s))

\* [x for x in seq if x]: the non-empty texts of seq, in order
RECURSIVE NonEmptyOnly(_)
NonEmptyOnly(seq) ==
    IF seq = <<>> THEN <<>>
    ELSE (IF Head(seq) # <<>> THEN <<Head(seq)>> ELSE <<>>) \o NonEmptyOnly(Tail(seq))

\* the concatenation of a sequence of texts
RECURSIVE Concat(_)
Concat(seq) == IF seq = <<>> THEN <<>> ELSE Head(seq) \o Concat(Tail(seq))

----------------------------------------------------------------------------
(* The filesystem: a function from the paths that exist to their content.  *)
(* A content is text (written through open(path, "w")) or binary (a video, *)
(* a rendered PNG, which holds the graph it was drawn from).               *)

EmptyGraph == [nodes |-> {}, edges |-> {}]
TextFile(t) == [bin |-> FALSE, text |-> t, graph |-> EmptyGraph]
ImageFile(g) == [bin |-> TRUE, text |-> <<>>, graph |-> g]
BytesFile(b) == [bin |-> TRUE, text |-> b, graph |-> EmptyGraph]

\* open(path, "r", encoding="utf-8") followed by read() succeeds: the file
\* exists and decodes as UTF-8
Readable(files, path) == path \in DOMAIN files /\ ~files[path].bin

\* the filesystem after open(path, "w") and the writes: the file is created
\* or truncated and holds content
Write(files, path, content) ==
    [p \in DOMAIN files \cup {path} |-> IF p = path THEN content ELSE files[p]]

\* the log after one more record
Logged(l, level, msg) == Append(l, <<level, msg>>)

LogAll(l, records) == l \o records

----------------------------------------------------------------------------
(* PipelineManager.run and run_from_transcript: the stage sequence *)

\* a slip: the concept map generated before the summary it reads
SwappedStageAfter(operation, stage) ==
    CASE stage = "start" ->
             IF operation = "run" THEN "transcribe" ELSE "concept_map"
      [] stage = "transcribe" -> "concept_map"
      [] stage = "concept_map" -> "summarize"
      [] stage = "summarize" -> "visual_map"
      [] stage = "visual_map" -> "markdown"
      [] OTHER -> "done"

\* the statement that follows a stage in the body of run (lines 40-50) or of
\* run_from_transcript (lines 56-64)
StageAfter(operation, stage) ==
    CASE stage = "start" ->
             IF operation = "run" THEN "transcribe" ELSE "summarize"
      [] stage = "transcribe" -> "summarize"
      [] stage = "summarize" -> "concept_map"
      [] stage = "concept_map" -> "visual_map"
      [] stage = "visual_map" -> "markdown"
      [] OTHER -> "done"

StartMessage(operation) ==
    IF operation = "run" THEN "Starting the pipeline process."
    ELSE "Starting the pipeline process from an existing transcript."

CompletedMessage(operation) ==
    IF operation = "run" THEN "Pipeline process completed successfully."
    ELSE "Pipeline process completed successfully from transcript."

\* the log when a stage method of the manager has returned; after the last
\* one the entry operation logs its completion
AfterStage(l, stage, saved) ==
    LET l1 == Logged(l, "INFO", saved)
    IN  IF StageAfter(op, stage) = "done"
        THEN Logged(l1, "INFO", CompletedMessage(op))
        ELSE l1

\* run() up to its first stage
run ==
    /\ mgr = "ready" /\ pc = "idle"
    /\ op' = "run"
    /\ pc' = StageAfter("run", "start")
    /\ log' = Logged(log, "INFO", StartMessage("run"))
    /\ UNCHANGED <<fs0, mgrVars, envVars, invoked, raisedIn, heldVars, dlVars, extVars>>

\* a slip: Summarize skipped when a summary file is already there
SkipsSavedSummary ==
    /\ mgr = "ready" /\ pc = "idle"
    /\ op' = "run_from_transcript"
    /\ pc' = IF summary_path \in DOMAIN fs THEN "concept_map" ELSE "summarize"
    /\ log' = Logged(log, "INFO", StartMessage("run_from_transcript"))
    /\ UNCHANGED <<fs0, mgrVars, envVars, invoked, raisedIn, heldVars, dlVars, extVars>>

\* run_from_transcript() up to its first stage
run_from_transcript ==
    /\ mgr = "ready" /\ pc = "idle"
    /\ op' = "run_from_transcript"
    /\ pc' = StageAfter("run_from_transcript", "start")
    /\ log' = Logged(log, "INFO", StartMessage("run_from_transcript"))
    /\ UNCHANGED <<fs0, mgrVars, envVars, invoked, raisedIn, heldVars, dlVars, extVars>>

----------------------------------------------------------------------------
(* Transcribe: PipelineManager.transcribe_video, TranscriptionHandler *)

\* what the speech-to-text model can return for a video it can read
WhisperTexts == { <<>>, <<"T","1">> }

\* a slip: without a video, some recording is transcribed all the same
OpensSomeVideo(files, v) == TRUE

\* whisper can open the video: a path was given and names a file (ffmpeg
\* also opens a remote URL)
VideoReadable(files, v) ==
    Truthy(v) /\ (v \in DOMAIN files \/ StartsWith(v, S_http))

\* a slip: save_to_txt writes whatever is held
AlwaysHolds(result) == result # None

\* `if self.transcript:` / `if self.summary:`, the guard of a save
HoldsResult(result) == Truthy(result)

\* transcribe_video(): TranscriptionHandler(...).process().  transcribe()
\* catches every exception and leaves self.transcript None; save_to_txt
\* writes a held transcript, catching a failure of the write.
transcribe_video ==
    /\ mgr = "ready" /\ pc = "transcribe"
    /\ invoked' = Append(invoked, "transcribe")
    /\ \E text \in WhisperTexts \cup {None} :
         /\ text # None => VideoReadable(fs, video_file_path)
         /\ transcript' = text
         /\ LET l0 == Logged(log, "INFO", "Starting transcription for video")
                l1 == IF text = None
                      THEN Logged(l0, "ERROR", "Error during transcription")
                      ELSE l0
            IN  IF HoldsResult(text)
                THEN \E written \in BOOLEAN :
                       IF written
                       THEN /\ fs' = Write(fs, transcript_path, TextFile(text))
                            /\ log' = AfterStage(l1, "transcribe", "Transcript saved to")
                       ELSE /\ fs' = fs
                            /\ log' = AfterStage(
                                   Logged(l1, "ERROR", "Error saving transcript"),
                                   "transcribe", "Transcript saved to")
                ELSE /\ fs' = fs
                     /\ log' = AfterStage(
                            Logged(l1, "WARNING", "Transcript is empty. Nothing to save."),
                            "transcribe", "Transcript saved to")
    /\ pc' = StageAfter(op, "transcribe")
    /\ UNCHANGED <<fs0, mgrVars, apiKey, nlpModel, op, raisedIn,
                   summary, concept_map, graph, markdown_content, dlVars, extVars>>

----------------------------------------------------------------------------
(* Summarize: PipelineManager.generate_summary, SummaryHandler *)

\* what the text-generation backend can return for a summary request
SummaryTexts == { <<>>, <<"A"," ","B","."," ","C">> }

\* a slip: the manager catches what the stage raised and carries on
RaiseCaught(stage, l) ==
    /\ pc' = (IF stage = "download" THEN "downloaded" ELSE StageAfter(op, stage))
    /\ raisedIn' = stage
    /\ log' = l

\* a stage method of the manager left by an exception: the run ends there
Raise(stage, l) ==
    /\ pc' = "raised"
    /\ raisedIn' = stage
    /\ log' = l

\* generate_summary(): SummaryHandler(...).process().  The constructor
\* configures the OpenAI client outside any try: without an API key it
\* raises.  summarize() catches every exception (a failed read of the
\* transcript, a failed completion) and leaves self.summary None.
generate_summary ==
    /\ mgr = "ready" /\ pc = "summarize"
    /\ LET l0 == Logged(log, "INFO", "Generating summary for transcript")
       IN
       IF ~apiKey
       THEN /\ Raise("summarize", l0)
            /\ UNCHANGED <<fs0, fs, invoked, summary>>
       ELSE
         /\ invoked' = Append(invoked, "summarize")
         /\ raisedIn' = raisedIn
         /\ pc' = StageAfter(op, "summarize")
         /\ IF ~Readable(fs, transcript_path)
            THEN /\ summary' = None
                 /\ fs' = fs
                 /\ log' = AfterStage(
                        LogAll(l0, << <<"ERROR", "Error reading transcript">>,
                                      <<"ERROR", "Error during summary generation">>,
                                      <<"WARNING", "Summary is empty. Nothing to save.">> >>),
                        "summarize", "Summary saved to")
            ELSE \E text \in SummaryTexts \cup {None} :
                   /\ summary' = text
                   /\ LET l1 == IF text = None
                                THEN LogAll(l0, << <<"ERROR", "Unexpected error">>,
                                                   <<"ERROR", "Error during summary generation">> >>)
                                ELSE l0
                      IN  IF HoldsResult(text)
                          THEN \E written \in BOOLEAN :
                                 IF written
                                 THEN /\ fs' = Write(fs, summary_path, TextFile(text))
                                      /\ log' = AfterStage(l1, "summarize", "Summary saved to")
                                 ELSE /\ fs' = fs
                                      /\ log' = AfterStage(
                                             Logged(l1, "ERROR", "Error saving summary"),
                                             "summarize", "Summary saved to")
                          ELSE /\ fs' = fs
                               /\ log' = AfterStage(
                                      Logged(l1, "WARNING", "Summary is empty. Nothing to save."),
                                      "summarize", "Summary saved to")
    /\ UNCHANGED <<fs0, mgrVars, apiKey, nlpModel, op,
                   transcript, concept_map, graph, markdown_content, dlVars, extVars>>

----------------------------------------------------------------------------
(* ConceptMap: PipelineManager.generate_concept_map, ConceptMapHandler *)

S_bullet ==
    <<"-"," ">>
T_points ==
    <<"P","\n","\n","Q","\n">>
T_blank_line ==
    <<" ","\n","P">>

\* what the text-generation backend can return for a concept-map request
ConceptTexts == { <<>>, T_points, T_blank_line }

\* [f"- {line.strip()}" for line in lines]
RECURSIVE BulletEach(_)
BulletEach(lines) ==
    IF lines = <<>> THEN <<>>
    ELSE <<S_bullet \o Strip(Head(lines))>> \o BulletEach(Tail(lines))

\* self.concept_map of lines 65-67: the lines of the response that are not
\* the empty string, each stripped and prefixed with "- "
Bullets(result) == BulletEach(NonEmptyOnly(Split(result, "\n")))

\* what save_concept_map writes: every point followed by a newline
RECURSIVE PointLines(_)
PointLines(points) ==
    IF points = <<>> THEN <<>>
    ELSE Head(points) \o <<"\n">> \o PointLines(Tail(points))

\* a slip: save_concept_map opens the file whatever is held
AlwaysHoldsPoints(points) == TRUE

\* `if self.concept_map:`, the guard of save_concept_map
HoldsPoints(points) == points # <<>>

\* generate_concept_map(): ConceptMapHandler(...).process(), the shape of
\* generate_summary: the constructor raises without an API key,
\* generate_concept_map() catches every exception and leaves the list empty
generate_concept_map ==
    /\ mgr = "ready" /\ pc = "concept_map"
    /\ LET l0 == Logged(log, "INFO", "Generating concept map for summary")
       IN
       IF ~apiKey
       THEN /\ Raise("concept_map", l0)
            /\ UNCHANGED <<fs0, fs, invoked, concept_map, completion>>
       ELSE
         /\ invoked' = Append(invoked, "concept_map")
         /\ raisedIn' = raisedIn
         /\ pc' = StageAfter(op, "concept_map")
         /\ IF ~Readable(fs, summary_path)
            THEN /\ concept_map' = <<>>
                 /\ completion' = None
                 /\ fs' = fs
                 /\ log' = AfterStage(
                        LogAll(l0, << <<"ERROR", "Error reading summary">>,
                                      <<"ERROR", "Error during conceptual map generation">>,
                                      <<"WARNING", "Conceptual map is empty. Nothing to save.">> >>),
                        "concept_map", "Concept map saved to")
            ELSE \E result \in ConceptTexts \cup {None} :
                   LET points == IF result = None THEN <<>> ELSE Bullets(result)
                       l1 == IF result = None
                             THEN LogAll(l0, << <<"ERROR", "Unexpected error">>,
                                                <<"ERROR", "Error during conceptual map generation">> >>)
                             ELSE l0
                   IN  /\ concept_map' = points
                       /\ completion' = result
                       /\ IF HoldsPoints(points)
                          THEN \E written \in BOOLEAN :
                                 IF written
                                 THEN /\ fs' = Write(fs, concept_map_path,
                                                     TextFile(PointLines(points)))
                                      /\ log' = AfterStage(l1, "concept_map", "Concept map saved to")
                                 ELSE /\ fs' = fs
                                      /\ log' = AfterStage(
                                             Logged(l1, "ERROR", "Error saving conceptual map"),
                                             "concept_map", "Concept map saved to")
                          ELSE /\ fs' = fs
                               /\ log' = AfterStage(
                                      Logged(l1, "WARNING", "Conceptual map is empty. Nothing to save."),
                                      "concept_map", "Concept map saved to")
    /\ UNCHANGED <<fs0, mgrVars, apiKey, nlpModel, op,
                   transcript, summary, graph, markdown_content, dlVars,
                   parsed, streamed>>

----------------------------------------------------------------------------
(* VisualMap: PipelineManager.generate_visual_map, VisualMapHandler *)

\* A parsed document: its sentences in order, each the texts of its
\* recognized entities in order.  The documents entity recognition can
\* return for a text: every entity is a span of the text.
CandidateDocs ==
    { << >>,
      << << <<"A">>, <<"B">> >>, << <<"C">> >> >>,
      << << <<"A">>, <<"B">>, <<"C">> >> >> }

Docs(text) ==
    { d \in CandidateDocs :
        \A i \in 1..Len(d) : \A j \in 1..Len(d[i]) : Contains(text, d[i][j]) }

\* {ent.text for ent in doc.ents}
Entities(doc) ==
    UNION { { doc[i][j] : j \in 1..Len(doc[i]) } : i \in 1..Len(doc) }

\* a slip: every pair of entities of a sentence related, not the adjacent ones
AllPairs(doc) ==
    UNION { { <<doc[i][j], doc[i][k]>> : j, k \in 1..Len(doc[i]) } \
              { <<doc[i][j], doc[i][j]>> : j \in 1..Len(doc[i]) }
            : i \in 1..Len(doc) }

\* relations: for a sentence with more than one entity, each entity paired
\* with the one that follows it
Relations(doc) ==
    UNION { { <<doc[i][j], doc[i][j + 1]>> : j \in 1..(Len(doc[i]) - 1) }
            : i \in 1..Len(doc) }

\* [line.strip() for line in f if line.strip()]: the stripped lines of the
\* concept-map file that are not blank
ConceptMapLines(text) == NonEmptyOnly([i \in 1..Len(Split(text, "\n")) |->
                                          Strip(Split(text, "\n")[i])])

\* [point[2:].strip() for point in concept_map]
ConceptEntities(lines) == { Strip(Drop(lines[i], 3)) : i \in 1..Len(lines) }

\* self.graph after add_nodes_from(entities), add_edges_from(relations),
\* add_nodes_from(concept_entities) on the empty nx.Graph(): an edge is the
\* unordered pair of its ends, and adds both as nodes
GraphOf(doc, lines) ==
    LET rel == Relations(doc)
    IN  [nodes |-> Entities(doc) \cup { r[1] : r \in rel } \cup { r[2] : r \in rel }
                     \cup ConceptEntities(lines),
         edges |-> { {r[1], r[2]} : r \in rel }]

\* generate_visual_map(): VisualMapHandler(...).process().  The constructor
\* loads the spaCy model outside any try.  generate_visual_map() reads both
\* files before it touches the graph and catches every exception;
\* save_visual_map() renders whatever graph is held and catches a failure.
generate_visual_map ==
    /\ mgr = "ready" /\ pc = "visual_map"
    /\ LET l0 == Logged(log, "INFO", "Generating visual map using summary and concept map.")
       IN
       IF ~nlpModel
       THEN /\ Raise("visual_map", l0)
            /\ UNCHANGED <<fs0, fs, invoked, graph, parsed>>
       ELSE
         /\ invoked' = Append(invoked, "visual_map")
         /\ raisedIn' = raisedIn
         /\ pc' = StageAfter(op, "visual_map")
         /\ \E doc \in IF Readable(fs, summary_path) /\ Readable(fs, concept_map_path)
                       THEN Docs(fs[summary_path].text) ELSE { << >> } :
            LET g == IF ~Readable(fs, summary_path) \/ ~Readable(fs, concept_map_path)
                     THEN EmptyGraph
                     ELSE GraphOf(doc, ConceptMapLines(fs[concept_map_path].text))
                l1 == IF ~Readable(fs, summary_path)
                      THEN LogAll(l0, << <<"ERROR", "Error reading summary">>,
                                         <<"ERROR", "Error during visual map generation">> >>)
                      ELSE IF ~Readable(fs, concept_map_path)
                      THEN LogAll(l0, << <<"ERROR", "Error reading concept map">>,
                                         <<"ERROR", "Error during visual map generation">> >>)
                      ELSE l0
            IN  /\ graph' = g
                /\ parsed' = doc
                /\ \E rendered \in BOOLEAN :
                     IF rendered
                     THEN /\ fs' = Write(fs, visual_map_path, ImageFile(g))
                          /\ log' = AfterStage(l1, "visual_map", "Visual map saved to")
                     ELSE /\ fs' = fs
                          /\ log' = AfterStage(
                                 Logged(l1, "ERROR", "Error saving visual map"),
                                 "visual_map", "Visual map saved to")
    /\ UNCHANGED <<fs0, mgrVars, apiKey, nlpModel, op,
                   transcript, summary, concept_map, markdown_content, dlVars,
                   completion, streamed>>

----------------------------------------------------------------------------
(* Markdown: PipelineManager.generate_markdown, MarkdownHandler *)

S_title ==
    <<"#"," ">>
S_h_video ==
    <<"\n","#","#"," ","V","i","d","e","o","\n">>
S_video_open ==
    <<"<","v","i","d","e","o"," ","c","o","n","t","r","o","l","s"," ","s","r","c","=","\"">>
S_video_close ==
    <<"\""," ","w","i","d","t","h","=","\"","6","0","0","\"",">","<","/","v","i","d","e","o",">","\n">>
S_h_summary ==
    <<"\n","#","#"," ","R","e","s","u","m","e","n","\n">>
S_h_concept_map ==
    <<"\n","#","#"," ","M","a","p","a"," ","C","o","n","c","e","p","t","u","a","l","\n">>
S_h_visual_map ==
    <<"\n","#","#"," ","M","a","p","a"," ","V","i","s","u","a","l","\n">>
S_image_open ==
    <<"!","[","M","a","p","a"," ","V","i","s","u","a","l","]","(">>
S_image_close ==
    <<")","\n">>
\* The fence of a verbatim block. A TLA+ string cannot hold a backquote:
\* "~" stands for it.
S_fence_open ==
    <<"~","~","~","\n">>
S_fence_close ==
    <<"\n","~","~","~","\n">>
S_error_reading ==
    <<"E","r","r","o","r"," ","r","e","a","d","i","n","g"," ">>
S_file_dot ==
    <<" ","f","i","l","e",".","\n">>
S_summary ==
    <<"s","u","m","m","a","r","y">>
S_concept_map ==
    <<"c","o","n","c","e","p","t"," ","m","a","p">>

\* the working directory of the process, as path components: /w
Cwd == << <<"w">> >>

\* the components of os.path.normpath of a list of components: "" and "."
\* dropped, ".." dropping the component before it
RECURSIVE Normal(_, _)
Normal(done, rest) ==
    IF rest = <<>> THEN done
    ELSE IF Head(rest) \in { <<>>, <<".">> } THEN Normal(done, Tail(rest))
    ELSE IF Head(rest) = <<".",".">>
         THEN Normal(IF done = <<>> THEN done ELSE SubSeq(done, 1, Len(done) - 1),
                     Tail(rest))
    ELSE Normal(Append(done, Head(rest)), Tail(rest))

\* the components of os.path.abspath(p)
AbsComponents(p) ==
    Normal(<<>>, (IF StartsWith(p, <<"/">>) THEN <<>> ELSE Cwd) \o Split(p, "/"))

\* len(os.path.commonprefix([a, b])) of two component lists
RECURSIVE CommonLen(_, _)
CommonLen(a, b) ==
    IF a = <<>> \/ b = <<>> \/ Head(a) # Head(b) THEN 0
    ELSE 1 + CommonLen(Tail(a), Tail(b))

\* "/".join(components)
RECURSIVE JoinSlash(_)
JoinSlash(c) ==
    IF c = <<>> THEN <<>>
    ELSE IF Len(c) = 1 THEN c[1]
    ELSE c[1] \o <<"/">> \o JoinSlash(Tail(c))

\* os.path.relpath(path, start)
RelPath(path, start) ==
    LET start_list == AbsComponents(start)
        path_list == AbsComponents(path)
        i == CommonLen(start_list, path_list)
        rel_list == [k \in 1..(Len(start_list) - i) |-> <<".",".">>]
                        \o Drop(path_list, i + 1)
    IN  IF rel_list = <<>> THEN <<".">> ELSE JoinSlash(rel_list)

\* a slip: a section that cannot be read is left empty
EmptyForUnreadable(files, path, section_name) ==
    IF Readable(files, path)
    THEN S_fence_open \o files[path].text \o S_fence_close
    ELSE <<>>

\* a slip: the summary handed over in memory, the section taken from what
\* Summarize holds instead of from the file
EmbedsHeldResult(files, path, section_name) ==
    IF section_name = S_summary
    THEN IF Truthy(summary)
         THEN S_fence_open \o summary \o S_fence_close
         ELSE S_error_reading \o section_name \o S_file_dot
    ELSE IF Readable(files, path)
    THEN S_fence_open \o files[path].text \o S_fence_close
    ELSE S_error_reading \o section_name \o S_file_dot

\* _read_file_content(file_path, section_name): the fenced content of the
\* file, or the placeholder when the read raises
ReadFileContent(files, path, section_name) ==
    IF Readable(files, path)
    THEN S_fence_open \o files[path].text \o S_fence_close
    ELSE S_error_reading \o section_name \o S_file_dot

\* the Video section of lines 45-52
VideoSection(v, out) ==
    IF Truthy(v) /\ StartsWith(v, S_http)
    THEN S_video_open \o v \o S_video_close
    ELSE IF Truthy(v)
    THEN S_video_open \o Replace(RelPath(v, Dirname(out)), <<"\\">>, <<"/">>)
             \o S_video_close
    ELSE <<>>

\* a slip: the document ends at the first section that cannot be read
PartialMarkdownContent(files, v, t, s, c, m, out) ==
    LET head == S_title \o SplitextRoot(Basename(t)) \o <<"\n">>
                    \o S_h_video \o VideoSection(v, out)
                    \o S_h_summary \o ReadFileContent(files, s, S_summary)
    IN  IF ~Readable(files, s) THEN head
        ELSE head \o S_h_concept_map \o ReadFileContent(files, c, S_concept_map)
                 \o S_h_visual_map \o S_image_open \o Basename(m) \o S_image_close

\* self.markdown_content after generate_markdown()
MarkdownContent(files, v, t, s, c, m, out) ==
    S_title \o SplitextRoot(Basename(t)) \o <<"\n">>
    \o S_h_video \o VideoSection(v, out)
    \o S_h_summary \o ReadFileContent(files, s, S_summary)
    \o S_h_concept_map \o ReadFileContent(files, c, S_concept_map)
    \o S_h_visual_map \o S_image_open \o Basename(m) \o S_image_close

\* the messages generate_markdown() logs for the sections it cannot read
ReadErrors(files, s, c) ==
    (IF Readable(files, s) THEN <<>> ELSE << <<"ERROR", "Error reading summary file">> >>)
    \o (IF Readable(files, c) THEN <<>> ELSE << <<"ERROR", "Error reading concept map file">> >>)

\* generate_markdown(): MarkdownHandler(...).process().  generate_markdown()
\* replaces what it cannot read by a placeholder; save_markdown() logs and
\* re-raises a failure of the write.
generate_markdown ==
    /\ mgr = "ready" /\ pc = "markdown"
    /\ invoked' = Append(invoked, "markdown")
    /\ LET content == MarkdownContent(fs, video_file_path, transcript_path,
                                      summary_path, concept_map_path,
                                      visual_map_path, markdown_path)
           l0 == LogAll(Logged(log, "INFO", "Generating markdown file"),
                        ReadErrors(fs, summary_path, concept_map_path))
       IN  /\ markdown_content' = content
           /\ \E written \in BOOLEAN :
                IF written
                THEN /\ fs' = Write(fs, markdown_path, TextFile(content))
                     /\ pc' = StageAfter(op, "markdown")
                     /\ raisedIn' = raisedIn
                     /\ log' = AfterStage(l0, "markdown", "Markdown file saved to")
                ELSE /\ fs' = fs
                     /\ Raise("markdown", Logged(l0, "ERROR", "Error saving markdown file"))
    /\ UNCHANGED <<fs0, mgrVars, apiKey, nlpModel, op,
                   transcript, summary, concept_map, graph, dlVars, extVars>>

----------------------------------------------------------------------------
(* Download: VideoHandler, run on its own (it is no stage of the manager)  *)

Url_video ==
    <<"h","t","t","p",":","/","/","h","/","v",".","m","p","4","?","k","=","1">>
Url_dir ==
    <<"h","t","t","p",":","/","/","h","/">>

\* a query whose value holds a slash, as a signature does
Url_signed ==
    <<"h","t","t","p",":","/","/","h","/","v",".","m","p","4","?","s","=","a","/","b">>

Urls == { Url_video, Url_dir, Url_signed }

\* the chunks a response body can be streamed in
Bodies == { << >>, << <<"x">> >>, << <<"x">>, <<"y","z">> >> }

\* seq[-1]
Last(seq) == seq[Len(seq)]

\* self.video_url.split("/")[-1].split("?")[0]
LocalFilename(url) == Split(Last(Split(url, "/")), "?")[1]

\* VideoHandler(video_url).process(): download_video().  A RequestException
\* (the request, the status, the stream) is logged and caught and leaves
\* self.file_path None; a failure of open() is no RequestException and
\* leaves the handler.
download_video ==
    /\ mgr = "new" /\ pc = "idle" /\ op = "none"
    /\ op' = "download"
    /\ invoked' = Append(invoked, "download")
    /\ \E url \in Urls :
         LET local_filename == LocalFilename(url)
             l0 == Logged(log, "INFO", "Starting download")
         IN  /\ video_url' = url
             /\ \/ \* requests.get or raise_for_status raises
                   /\ fs' = fs
                   /\ file_path' = None
                   /\ streamed' = <<>>
                   /\ pc' = "downloaded"
                   /\ raisedIn' = raisedIn
                   /\ log' = Logged(l0, "ERROR", "Error downloading video")
                \/ \* open(local_filename, "wb") raises
                   /\ fs' = fs
                   /\ file_path' = None
                   /\ streamed' = <<>>
                   /\ Raise("download", l0)
                \/ \* the stream breaks after n chunks, or ends after all
                   /\ local_filename # <<>>
                   /\ \E body \in Bodies : \E n \in 0..Len(body) : \E broken \in BOOLEAN :
                        /\ ~broken => n = Len(body)
                        /\ fs' = Write(fs, local_filename,
                                       BytesFile(Concat(SubSeq(body, 1, n))))
                        /\ file_path' = IF broken THEN None ELSE local_filename
                        /\ streamed' = body
                        /\ log' = IF broken
                                  THEN Logged(l0, "ERROR", "Error downloading video")
                                  ELSE Logged(l0, "INFO", "Downloaded video to")
                   /\ pc' = "downloaded"
                   /\ raisedIn' = raisedIn
    /\ UNCHANGED <<fs0, mgrVars, apiKey, nlpModel, heldVars, completion, parsed>>

----------------------------------------------------------------------------
(* The pipeline's runs *)

P_video ==
    <<"d","/","a",".","m","p","4">>
P_transcript ==
    <<"d","/","a","_","t","r","a","n","s","c","r","i","p","t",".","t","x","t">>
P_notes_md ==
    <<"a",".","m","d">>
P_remote ==
    <<"h","t","t","p",":","/","/","h","/","a",".","m","p","4">>

\* the arguments the manager is constructed with: <<video, transcript>>
RunInputs ==
    { <<P_video, None>>, <<None, P_transcript>>, <<None, P_notes_md>>,
      <<None, None>>, <<None, <<>>>>, <<P_remote, None>>,
      <<P_video, P_transcript>> }

EmptyFs == [p \in {} |-> TextFile(<<>>)]

\* the supplied files: a local video, a transcript written beforehand
SuppliedFiles(v, t) ==
    LET withVideo == IF Truthy(v) /\ ~StartsWith(v, S_http)
                     THEN Write(EmptyFs, v, BytesFile(<<"v">>))
                     ELSE EmptyFs
    IN  IF Truthy(t) THEN Write(withVideo, t, TextFile(<<"T","0">>)) ELSE withVideo

\* the files an earlier run on the same paths left when it ended at the
\* VisualMap stage: a transcript, a summary, a concept map
EarlierFiles(v, t) ==
    LET dir == BaseDirOf(StartOf(v, t))
        name == VideoNameOf(v, t)
        f1 == Write(SuppliedFiles(v, t), TranscriptPathOf(v, t), TextFile(<<"T","0">>))
        f2 == Write(f1, DerivedPath(dir, name, S_summary_txt),
                    TextFile(<<"A"," ","B","."," ","C">>))
    IN  Write(f2, DerivedPath(dir, name, S_concept_map_txt),
              TextFile(PointLines(Bullets(T_points))))

\* the same after the summary file was removed
SummaryRemoved(v, t) ==
    LET files == EarlierFiles(v, t)
        gone == DerivedPath(BaseDirOf(StartOf(v, t)), VideoNameOf(v, t), S_summary_txt)
    IN  [p \in DOMAIN files \ {gone} |-> files[p]]

Init ==
    /\ Idle
    /\ \E i \in RunInputs :
         /\ video_file_path = i[1]
         /\ transcript_path = i[2]
         /\ fs \in { EmptyFs, SuppliedFiles(i[1], i[2]) }
                   \cup (IF RaisesValueError(i[1], i[2]) THEN {}
                         ELSE { EarlierFiles(i[1], i[2]),
                                SummaryRemoved(i[1], i[2]) })
    /\ fs0 = fs
    /\ apiKey \in BOOLEAN
    /\ nlpModel \in BOOLEAN

Next ==
    \/ Construct
    \/ ConstructRaises
    \/ download_video
    \/ run
    \/ run_from_transcript
    \/ transcribe_video
    \/ generate_summary
    \/ generate_concept_map
    \/ generate_visual_map
    \/ generate_markdown

Spec == Init /\ [][Next]_vars

----------------------------------------------------------------------------
(* Properties *)

\* file f in directory D: D/f, or f alone when there is no directory
InDir(D, f) ==
    IF D = <<>> THEN f
    ELSE IF D[Len(D)] = "/" THEN D \o f
    ELSE D \o <<"/">> \o f

\* the stem of a path: its file name without the extension
Stem(path) == SplitextRoot(Basename(path))

\* the positions at which sub occurs in s
Occurrences(s, sub) ==
    { i \in 1..(Len(s) - Len(sub) + 1) : SubSeq(s, i, i + Len(sub) - 1) = sub }

\* s without the n characters that start at position i
Without(s, i, n) == SubSeq(s, 1, i - 1) \o Drop(s, i + n)

\* the file at a path, or NoFile
NoFile == [bin |-> FALSE, text |-> <<"<absent>">>, graph |-> EmptyGraph]
FileAt(files, path) == IF path \in DOMAIN files THEN files[path] ELSE NoFile

\* the records the step added to the log
NewRecords == { log'[i] : i \in (Len(log) + 1)..Len(log') }

\* the step is a call of process() of the handler of this stage
Processed(stage) == pc = stage /\ invoked' = Append(invoked, stage)

PipelineOps == {"run", "run_from_transcript"}

\* C1 (as stated): a constructed manager's transcript, summary, concept-map,
\* visual-map and markdown paths are D/B_transcript.txt, D/B_summary.txt,
\* D/B_concept_map.txt, D/B_visual_map.png and D/B.md for its directory D
\* and base name B, whichever path it was constructed from.
C1_AllPathsFromBase ==
    mgr = "ready" =>
        /\ transcript_path = InDir(base_dir, video_name \o S_transcript_txt)
        /\ summary_path = InDir(base_dir, video_name \o S_summary_txt)
        /\ concept_map_path = InDir(base_dir, video_name \o S_concept_map_txt)
        /\ visual_map_path = InDir(base_dir, video_name \o S_visual_map_png)
        /\ markdown_path = InDir(base_dir, video_name \o S_md)

\* C1 (amended): constructing a manager from a video path with stem B, or
\* from a transcript path whose stem reduces to B, in directory D, gives the
\* summary, concept-map, visual-map and markdown paths D/B_summary.txt,
\* D/B_concept_map.txt, D/B_visual_map.png and D/B.md; the transcript path
\* is the supplied transcript path when one was supplied, and
\* D/B_transcript.txt otherwise.
C1_DerivedPaths ==
    [][(mgr = "new" /\ mgr' = "ready") =>
         LET v == video_file_path
             t == transcript_path
             D == Dirname(IF Truthy(v) THEN v ELSE t)
             B == IF Truthy(v) THEN Stem(v)
                  ELSE Replace(Stem(t), S_transcript, <<>>)
         IN  /\ base_dir' = D /\ video_name' = B
             /\ summary_path' = InDir(D, B \o S_summary_txt)
             /\ concept_map_path' = InDir(D, B \o S_concept_map_txt)
             /\ visual_map_path' = InDir(D, B \o S_visual_map_png)
             /\ markdown_path' = InDir(D, B \o S_md)
             /\ transcript_path' =
                    IF Truthy(t) THEN t ELSE InDir(D, B \o S_transcript_txt)
      ]_vars

\* a manager constructed from d/a.txt: base name a in d, the transcript path
\* kept as supplied
C1_Witness ==
    /\ mgr = "ready" /\ video_file_path = None
    /\ base_dir = <<"d">> /\ video_name = <<"a">>
    /\ transcript_path = <<"d","/","a",".","t","x","t">>
    /\ summary_path = <<"d","/","a">> \o S_summary_txt

\* C4 (as stated): a manager constructed from a transcript path whose stem
\* contains _transcript has as video_name that stem with exactly one
\* occurrence of _transcript removed, however often it occurs.
C4_StripsOneOccurrence ==
    (mgr = "ready" /\ ~Truthy(video_file_path)
        /\ Contains(Stem(transcript_path), S_transcript))
    => \E i \in Occurrences(Stem(transcript_path), S_transcript) :
          video_name = Without(Stem(transcript_path), i, Len(S_transcript))

\* the stage methods of the manager
StageEnabled ==
    \/ ENABLED transcribe_video
    \/ ENABLED generate_summary
    \/ ENABLED generate_concept_map
    \/ ENABLED generate_visual_map
    \/ ENABLED generate_markdown

\* the stages of an entry operation, in the order of its body
StageOrder(operation) ==
    IF operation = "run"
    THEN <<"transcribe", "summarize", "concept_map", "visual_map", "markdown">>
    ELSE <<"summarize", "concept_map", "visual_map", "markdown">>

IsPrefix(a, b) == Len(a) <= Len(b) /\ SubSeq(b, 1, Len(a)) = a

\* C2: in run(), as long as no stage raises, the stages are invoked once
\* each in the order Transcribe, Summarize, ConceptMap, VisualMap, Markdown,
\* one after the other: what was invoked is a prefix of that order, the run
\* stands at the stage that follows the last one invoked, and a completed
\* run has invoked all five.
C2_RunOrder ==
    (op = "run" /\ raisedIn = "none") =>
        /\ IsPrefix(invoked, StageOrder("run"))
        /\ pc # "done" => pc = StageOrder("run")[Len(invoked) + 1]
        /\ pc = "done" <=> invoked = StageOrder("run")

\* a run() that completed after its five stages
C2_Witness ==
    /\ op = "run" /\ pc = "done" /\ raisedIn = "none"
    /\ Len(invoked) = 5

\* C3 (as stated): run_from_transcript() invokes Summarize, ConceptMap,
\* VisualMap and Markdown once each in that order, never Transcribe, and
\* leaves the transcript file it starts from as it was.
C3_FromTranscript ==
    op = "run_from_transcript" =>
        /\ IsPrefix(invoked, StageOrder("run_from_transcript"))
        /\ pc = "done" => invoked = StageOrder("run_from_transcript")
        /\ transcript_path \in DOMAIN fs0 =>
               FileAt(fs, transcript_path) = fs0[transcript_path]

\* C5: a Summarize or ConceptMap stage whose handler ends up holding an
\* empty or absent result leaves the filesystem as it was (no file created,
\* an existing file kept), logs the "Nothing to save" warning and does not
\* raise.
C5_EmptySaveWritesNothing ==
    [][( \/ Processed("summarize") /\ ~Truthy(summary')
         \/ Processed("concept_map") /\ concept_map' = <<>> )
       => /\ fs' = fs
          /\ pc' # "raised" /\ raisedIn' = raisedIn
          /\ Processed("summarize") =>
                <<"WARNING", "Summary is empty. Nothing to save.">> \in NewRecords
          /\ Processed("concept_map") =>
                <<"WARNING", "Conceptual map is empty. Nothing to save.">> \in NewRecords
      ]_vars

\* Summarize held an empty summary (the backend returned "") while a summary
\* file of an earlier run exists: the file is kept
C5_Witness ==
    /\ pc = "concept_map" /\ summary = <<>>
    /\ <<"WARNING", "Summary is empty. Nothing to save.">> = log[Len(log) - 1]
    /\ summary_path \in DOMAIN fs
    /\ fs = fs0

\* C6: once a stage method has raised, the manager has not caught it: the
\* entry operation is over, no stage can run any more, no stage that
\* follows the raising one was invoked, and the completion message is not
\* in the log.
C6_RaisePropagates ==
    (raisedIn # "none" /\ op \in PipelineOps) =>
        /\ pc = "raised"
        /\ ~StageEnabled
        /\ \A i \in 1..Len(StageOrder(op)) :
             StageOrder(op)[i] = raisedIn =>
                 \A j \in (i + 1)..Len(StageOrder(op)) :
                     \A k \in 1..Len(invoked) : invoked[k] # StageOrder(op)[j]
        /\ \A k \in 1..Len(log) : log[k] # <<"INFO", CompletedMessage(op)>>

\* run() left by the exception of the Summarize stage, after Transcribe
C6_Witness ==
    /\ op = "run" /\ pc = "raised" /\ raisedIn = "summarize"
    /\ invoked = <<"transcribe">>

\* C9: a manager constructed with neither path raises ValueError (and does
\* not construct); a manager that raised was given neither path, has no
\* derived attribute, and no entry operation or stage can run on it.
C9_NeitherPathRaises ==
    /\ (mgr = "new" /\ op = "none"
           /\ ~Truthy(video_file_path) /\ ~Truthy(transcript_path))
       => (ENABLED ConstructRaises /\ ~ENABLED Construct)
    /\ mgr = "ValueError" =>
         /\ ~Truthy(video_file_path) /\ ~Truthy(transcript_path)
         /\ base_dir = Unset /\ video_name = Unset
         /\ summary_path = Unset /\ concept_map_path = Unset
         /\ visual_map_path = Unset /\ markdown_path = Unset
         /\ invoked = <<>> /\ fs = fs0
         /\ ~ENABLED run /\ ~ENABLED run_from_transcript /\ ~StageEnabled

\* the constructor raised for video None and transcript ""
C9_Witness ==
    mgr = "ValueError" /\ video_file_path = None /\ transcript_path = <<>>

\* the log holds an ERROR record with this message
LoggedError(msg) == \E k \in 1..Len(log) : log[k] = <<"ERROR", msg>>

\* the placeholder _read_file_content returns for a section
Placeholder(section_name) == S_error_reading \o section_name \o S_file_dot

\* the video the manager was given cannot be opened: no path, or no such
\* local file
VideoMissing ==
    \/ ~Truthy(video_file_path)
    \/ video_file_path \notin DOMAIN fs /\ ~StartsWith(video_file_path, S_http)

\* C7 (as stated): an input-read failure in Transcribe, Download or
\* Markdown assembly is re-raised out of the stage's process().
C7_ReadFailureReRaised ==
    /\ LoggedError("Error during transcription") => raisedIn = "transcribe"
    /\ LoggedError("Error downloading video") => raisedIn = "download"
    /\ (LoggedError("Error reading summary file")
          \/ LoggedError("Error reading concept map file")) => raisedIn = "markdown"

\* C7 (amended): an input-read failure in Transcribe, Download or Markdown
\* assembly is logged and caught inside the stage, whose process() returns:
\* Transcribe ends with no transcript and writes nothing, Download ends with
\* no file path, Markdown assembly puts the placeholder in the place of the
\* section it cannot read; Markdown's process() raises only when the write
\* of the markdown file fails.
C7_ReadFailureCaught ==
    [][ /\ (Processed("transcribe") /\ VideoMissing) =>
              /\ <<"ERROR", "Error during transcription">> \in NewRecords
              /\ transcript' = None /\ fs' = fs
              /\ pc' # "raised" /\ raisedIn' = raisedIn
        /\ (op' = "download" /\ op = "none"
              /\ <<"ERROR", "Error downloading video">> \in NewRecords) =>
              /\ file_path' = None
              /\ pc' = "downloaded" /\ raisedIn' = raisedIn
        /\ (Processed("markdown") /\ ~Readable(fs, summary_path)) =>
              /\ <<"ERROR", "Error reading summary file">> \in NewRecords
              /\ Contains(markdown_content', S_h_summary \o Placeholder(S_summary))
        /\ (Processed("markdown") /\ ~Readable(fs, concept_map_path)) =>
              /\ <<"ERROR", "Error reading concept map file">> \in NewRecords
              /\ Contains(markdown_content',
                          S_h_concept_map \o Placeholder(S_concept_map))
        /\ (Processed("markdown") /\ pc' = "raised") =>
              <<"ERROR", "Error saving markdown file">> \in NewRecords
      ]_vars

\* a completed run_from_transcript() whose transcript, summary and concept
\* map were all missing: every read failure was caught
C7_Witness ==
    /\ op = "run_from_transcript" /\ pc = "done"
    /\ LoggedError("Error reading transcript")
    /\ LoggedError("Error reading summary file")
    /\ LoggedError("Error reading concept map file")
    /\ Contains(FileAt(fs, markdown_path).text, Placeholder(S_summary))

\* Transcribe of this run() held an empty transcript
EmptyTranscript ==
    op = "run" /\ Len(invoked) >= 1 /\ invoked[1] = "transcribe" /\ ~Truthy(transcript)

\* the later stages of a run() degrade in turn, as far as they were invoked
Degraded ==
    /\ Len(invoked) >= 2 => ~Truthy(summary)
    /\ Len(invoked) >= 3 => concept_map = <<>>
    /\ Len(invoked) >= 4 => graph = EmptyGraph
    /\ Len(invoked) >= 5 =>
         /\ Contains(markdown_content, S_h_summary \o Placeholder(S_summary))
         /\ Contains(markdown_content, S_h_concept_map \o Placeholder(S_concept_map))

\* the calls outside the pipeline's control succeed: the client has its API
\* key, the NLP model loads, the markdown file can be written
CapabilitiesWork ==
    apiKey /\ nlpModel /\ ~LoggedError("Error saving markdown file")

\* C8 (as stated, the external capabilities working): when Transcribe of
\* run() yields an empty transcript, the run does not raise and every later
\* artifact degrades in turn: an empty summary, an empty concept map, an
\* empty graph, the placeholders in the markdown document.
C8_EmptyTranscriptDegrades ==
    (EmptyTranscript /\ CapabilitiesWork) => (pc # "raised" /\ Degraded)

\* C8 (amended): when Transcribe of run() yields an empty transcript and no
\* transcript, summary or concept-map file existed at the manager's paths
\* before the run, every later stage that is invoked degrades in turn, and
\* the run is left only by an exception that does not depend on the
\* transcript: the client constructor without an API key, the NLP model
\* that cannot be loaded, the markdown file that cannot be written.
C8_FreshRunDegrades ==
    (EmptyTranscript
        /\ transcript_path \notin DOMAIN fs0
        /\ summary_path \notin DOMAIN fs0
        /\ concept_map_path \notin DOMAIN fs0)
    => /\ Degraded
       /\ pc = "raised" =>
            \/ raisedIn \in {"summarize", "concept_map"} /\ ~apiKey
            \/ raisedIn = "visual_map" /\ ~nlpModel
            \/ raisedIn = "markdown" /\ LoggedError("Error saving markdown file")

\* a run() from a video alone that completed after speech-to-text returned
\* "": the markdown file holds both placeholders
C8_Witness ==
    /\ op = "run" /\ pc = "done" /\ transcript = <<>>
    /\ video_file_path = P_video
    /\ transcript_path \notin DOMAIN fs
    /\ summary = None /\ concept_map = <<>> /\ graph = EmptyGraph
    /\ Contains(FileAt(fs, markdown_path).text,
                Placeholder(S_summary) \o S_h_concept_map \o Placeholder(S_concept_map))

\* C10: Markdown assembly with a summary file it cannot read still builds
\* the whole document: the title, the Video section, the Summary section
\* holding the placeholder, the Concept Map section holding the fenced
\* content of its file, the Visual Map section at the end; process() writes
\* that document, and raises only when the write itself fails.
C10_MissingSummaryStillComplete ==
    [][(Processed("markdown") /\ ~Readable(fs, summary_path)) =>
         LET c == markdown_content'
         IN  /\ StartsWith(c, S_title \o Stem(transcript_path) \o <<"\n">> \o S_h_video)
             /\ Truthy(video_file_path) =>
                    /\ Contains(c, S_h_video \o S_video_open)
                    /\ Contains(c, S_video_close \o S_h_summary)
             /\ Contains(c, S_h_summary \o Placeholder(S_summary) \o S_h_concept_map)
             /\ Readable(fs, concept_map_path) =>
                    Contains(c, S_h_concept_map \o S_fence_open
                                  \o fs[concept_map_path].text \o S_fence_close
                                  \o S_h_visual_map)
             /\ EndsWith(c, S_h_visual_map \o S_image_open
                              \o Basename(visual_map_path) \o S_image_close)
             /\ pc' = "raised" => <<"ERROR", "Error saving markdown file">> \in NewRecords
             /\ pc' # "raised" =>
                    pc' = "done" /\ FileAt(fs', markdown_path) = TextFile(c)
      ]_vars

\* a completed run whose summary file was missing and whose concept-map
\* file was read: the document written holds the placeholder, the bullets
\* and the image reference
C10_Witness ==
    /\ pc = "done" /\ video_file_path = P_video
    /\ ~Readable(fs, summary_path) /\ Readable(fs, concept_map_path)
    /\ Contains(FileAt(fs, markdown_path).text,
                S_h_summary \o Placeholder(S_summary) \o S_h_concept_map
                    \o S_fence_open \o fs[concept_map_path].text)
    /\ EndsWith(FileAt(fs, markdown_path).text, S_image_close)

----------------------------------------------------------------------------
(* ConceptMap formatting, the VisualMap graph, Download *)

\* the lines of a text that are not blank (empty or whitespace only), in order
RECURSIVE NonBlankOnly(_)
NonBlankOnly(lines) ==
    IF lines = <<>> THEN <<>>
    ELSE IF Strip(Head(lines)) = <<>> THEN NonBlankOnly(Tail(lines))
    ELSE <<Head(lines)>> \o NonBlankOnly(Tail(lines))

\* the ConceptMap step wrote its file: it holds points and the write went
\* through
ConceptMapSaved ==
    /\ Processed("concept_map")
    /\ concept_map' # <<>>
    /\ <<"ERROR", "Error saving conceptual map">> \notin NewRecords

\* C11: the saved concept-map file is exactly the non-blank lines of the raw
\* text-generation output, in order, each prefixed once with "- " and ended
\* by a newline; no bullet of the file has empty text.
C11_BulletsOfNonBlankLines ==
    [][ConceptMapSaved =>
          /\ FileAt(fs', concept_map_path).text
               = PointLines(BulletEach(NonBlankOnly(Split(completion', "\n"))))
          /\ \A i \in 1..Len(concept_map') : concept_map'[i] # S_bullet
      ]_vars

\* the VisualMap stage of this run has run
VisualMapInvoked == \E n \in 1..Len(invoked) : invoked[n] = "visual_map"

\* the entities x and y follow one another in some sentence of the document
AdjacentSomewhere(d, x, y) ==
    \E i \in 1..Len(d) : \E j \in 1..(Len(d[i]) - 1) :
        {d[i][j], d[i][j + 1]} = {x, y}

LastPathSegment(url) == Last(Split(Split(url, "?")[1], "/"))

\* C13: a download that succeeded returned, and wrote, a file named by the
\* URL's last path segment without its query, holding the streamed chunks
\* in order, the response body byte for byte.
C13_DownloadNameAndBody ==
    (op = "download" /\ file_path # None) =>
        /\ file_path = LastPathSegment(video_url)
        /\ file_path \in DOMAIN fs
        /\ fs[file_path] = BytesFile(Concat(streamed))

----------------------------------------------------------------------------
(* Unconditional stages, the save contract, artifact lifecycles *)

\* the run is at a stage: it has started and has neither ended nor raised
AtStage == op \in PipelineOps /\ pc \notin {"idle", "done", "raised"}

\* where the run stands once n stages of its order have been invoked
Position(operation, n) ==
    IF n = Len(StageOrder(operation)) THEN "done"
    ELSE StageOrder(operation)[n + 1]

\* C14: every stage of run() and run_from_transcript() is unconditional.
\* The run starts at the first stage of its order, and every step of a run
\* that is at a stage, whatever files exist and whatever the stage before
\* holds, either invokes that stage and moves to the one that follows it in
\* the order, or leaves the run by an exception of that stage: no stage is
\* skipped.
C14_StagesUnconditional ==
    [][ /\ (pc = "idle" /\ op' \in PipelineOps) =>
              invoked' = <<>> /\ pc' = Position(op', 0)
        /\ AtStage =>
              \/ /\ pc' = "raised" /\ raisedIn' = pc
                 /\ invoked' \in {invoked, Append(invoked, pc)}
              \/ /\ pc = Position(op, Len(invoked))
                 /\ invoked' = Append(invoked, pc)
                 /\ pc' = Position(op, Len(invoked'))
      ]_vars

\* a run() that completed although the summary and the concept-map file
\* were there before it started and Summarize held nothing: every stage was
\* invoked
C14_Witness ==
    /\ op = "run" /\ pc = "done" /\ invoked = StageOrder("run")
    /\ summary_path \in DOMAIN fs0 /\ concept_map_path \in DOMAIN fs0
    /\ ~Truthy(summary)
    /\ concept_map # <<>>

\* C15: when the VisualMap stage ends with an empty graph because it could
\* not read the summary or the concept-map file, it writes nothing (no file
\* is created or overwritten at the visual-map path) and raises nothing.
C15_EmptyGraphWritesNothing ==
    [][(Processed("visual_map")
          /\ (~Readable(fs, summary_path) \/ ~Readable(fs, concept_map_path))
          /\ graph' = EmptyGraph)
        => /\ FileAt(fs', visual_map_path) = FileAt(fs, visual_map_path)
           /\ fs' = fs
           /\ pc' # "raised"
      ]_vars

\* the artifact paths of a constructed manager, in stage order
ArtifactPaths ==
    <<transcript_path, summary_path, concept_map_path, visual_map_path, markdown_path>>

\* the stage that produces the artifact at each of them
Producer == <<"transcribe", "summarize", "concept_map", "visual_map", "markdown">>

\* the source artifact and the five artifact paths are pairwise distinct
PathsDistinct ==
    /\ \A i, j \in 1..5 : i # j => ArtifactPaths[i] # ArtifactPaths[j]
    /\ Truthy(video_file_path) =>
          \A i \in 1..5 : ArtifactPaths[i] # video_file_path
    /\ (~Truthy(video_file_path) /\ Truthy(transcript_path)) =>
          \A i \in 2..5 : ArtifactPaths[i] # transcript_path

\* C16: the source artifact and the five artifact paths of a manager are
\* pairwise distinct, and within a run the file at an artifact path changes
\* only in the step of the stage that produces it, which happens once: no
\* stage overwrites its input, the source artifact or another stage's
\* artifact.
C16_WrittenOnceByProducer ==
    [][ /\ mgr' = "ready" => PathsDistinct'
        /\ (mgr = "ready" /\ op \in PipelineOps) =>
             \A i \in 1..5 :
                FileAt(fs', ArtifactPaths[i]) # FileAt(fs, ArtifactPaths[i])
                   => /\ pc = Producer[i]
                      /\ \A n \in 1..Len(invoked) : invoked[n] # Producer[i]
      ]_vars

----------------------------------------------------------------------------
(* The markdown document, successive runs, run() on a transcript *)

\* the video tag for a source
VideoTag(src) == S_video_open \o src \o S_video_close

\* a section's body: the fenced text of its file, or the placeholder
SectionBody(files, path, section_name) ==
    IF path \in DOMAIN files /\ ~files[path].bin
    THEN S_fence_open \o files[path].text \o S_fence_close
    ELSE Placeholder(section_name)

\* C17: whatever files can be read and whatever the video reference is, the
\* assembled document is, in this order, the title (the manager's derived
\* base name), the Video section (a video tag with the URL as it is when the
\* reference is remote, with the path relative to the markdown file's
\* directory when it is local), the Summary section, the Concept Map
\* section, and the Visual Map section (the image by its file name only).
C17_DocumentLayout ==
    [][Processed("markdown") =>
         markdown_content' =
             S_title \o video_name \o <<"\n">>
             \o S_h_video
             \o (IF ~Truthy(video_file_path) THEN <<>>
                 ELSE IF StartsWith(video_file_path, S_http)
                 THEN VideoTag(video_file_path)
                 ELSE VideoTag(RelPath(video_file_path, Dirname(markdown_path))))
             \o S_h_summary \o SectionBody(fs, summary_path, S_summary)
             \o S_h_concept_map \o SectionBody(fs, concept_map_path, S_concept_map)
             \o S_h_visual_map
             \o S_image_open \o Basename(visual_map_path) \o S_image_close
      ]_vars

\* the stage has been invoked in this run
Invoked(stage) == \E n \in 1..Len(invoked) : invoked[n] = stage

\* an earlier run left a text file at the path
LeftByEarlierRun(path) == path \in DOMAIN fs0 /\ ~fs0[path].bin

\* the text of a file as a section of the document embeds it
Fenced(text) == S_fence_open \o text \o S_fence_close

TranscriptOnly == mgr = "ready" /\ ~Truthy(video_file_path)

\* The filesystem a completed run leaves, from the filesystem it started on
\* and what the external capabilities returned (the summary text, the
\* completion, the parsed document, the writes that failed): the files of
\* Summarize, ConceptMap, VisualMap and Markdown written in turn.
AfterSummarize ==
    IF Truthy(summary) /\ ~LoggedError("Error saving summary")
    THEN Write(fs0, summary_path, TextFile(summary))
    ELSE fs0

PointsOf(response) == IF response = None THEN <<>> ELSE Bullets(response)

AfterConceptMap ==
    IF PointsOf(completion) # <<>> /\ ~LoggedError("Error saving conceptual map")
    THEN Write(AfterSummarize, concept_map_path,
               TextFile(PointLines(PointsOf(completion))))
    ELSE AfterSummarize

GraphFrom(files) ==
    IF Readable(files, summary_path) /\ Readable(files, concept_map_path)
    THEN GraphOf(parsed, ConceptMapLines(files[concept_map_path].text))
    ELSE EmptyGraph

AfterVisualMap ==
    IF ~LoggedError("Error saving visual map")
    THEN Write(AfterConceptMap, visual_map_path, ImageFile(GraphFrom(AfterConceptMap)))
    ELSE AfterConceptMap

AfterMarkdown ==
    Write(AfterVisualMap, markdown_path,
          TextFile(MarkdownContent(AfterVisualMap, video_file_path, transcript_path,
                                   summary_path, concept_map_path,
                                   visual_map_path, markdown_path)))

\* C19: on a manager constructed from a transcript path only, run() and
\* run_from_transcript() are equivalent.  The Transcribe stage of run()
\* holds nothing, writes nothing and raises nothing: once it has returned,
\* run() is at Summarize on the filesystem and with the results that
\* run_from_transcript() starts from.  Either operation, once completed,
\* leaves the filesystem that the starting filesystem and the capabilities'
\* responses determine, the same for both.
C19_RunAsFromTranscript ==
    TranscriptOnly =>
       /\ op = "run" => transcript = None /\ raisedIn # "transcribe"
       /\ (op = "run" /\ invoked = <<"transcribe">> /\ pc # "raised") =>
             /\ pc = "summarize"
             /\ fs = fs0
             /\ summary = None /\ concept_map = <<>> /\ graph = EmptyGraph
             /\ markdown_content = <<>>
             /\ completion = None /\ parsed = <<>> /\ streamed = <<>>
       /\ (op \in PipelineOps /\ pc = "done") => fs = AfterMarkdown

\* a run() on a manager without a video that completed: the transcript it
\* was given is as it was, the summary written from it
C19_Witness ==
    /\ op = "run" /\ pc = "done" /\ TranscriptOnly
    /\ transcript = None
    /\ transcript_path = P_transcript
    /\ FileAt(fs, transcript_path) = FileAt(fs0, transcript_path)
    /\ Readable(fs0, transcript_path)
    /\ Truthy(summary) /\ FileAt(fs, summary_path) = TextFile(summary)
    /\ fs = AfterMarkdown

====
